---- MODULE Spec2Model ----
(***************************************************************************)
(* Job tracking and work-list resolution of the seedream batch pipeline.   *)
(*                                                                         *)
(*   src/db/tracking.py      the tracking collection and its operations    *)
(*   src/db/source.py        the players collection (candidates)           *)
(*   src/pipeline/runner.py  run_pipeline: recovery, resolution, executor  *)
(*                                                                         *)
(* The tracking collection is a MongoDB collection: a sequence of          *)
(* documents in insertion (natural) order.  Optional fields hold None      *)
(* (the empty tuple) or Some(v) (a one-element tuple).  Strings that the   *)
(* code strips (image URLs) are sequences of characters.                   *)
(***************************************************************************)
EXTENDS Integers, Sequences, FiniteSets, TLC

VARIABLES tracking, source, now, proc, ops, returned

vars == <<tracking, source, now, proc, ops, returned>>

-----------------------------------------------------------------------------
(* Bounds of the model *)

\* players in the source collection
NumPlayers == 3
\* largest value of the --max-retries argument a run is started with
MaxRetriesArg == 2
\* largest reading of the wall clock
MaxClock == 1
\* largest elapsed time of one attempt
MaxElapsed == 1

\* the elapsed times attempts are checked with: none and the largest
Durations == {0, MaxElapsed}
\* keys the store harness calls the operations with
NumKeys == 2
\* longest sequence of store calls the store harness makes
MaxOps == 4

-----------------------------------------------------------------------------
(* Values *)

STATUS_PENDING == "pending"
STATUS_PROCESSING == "processing"
STATUS_COMPLETED == "completed"
STATUS_FAILED == "failed"

Statuses == {STATUS_PENDING, STATUS_PROCESSING, STATUS_COMPLETED, STATUS_FAILED}

None == <<>>
Some(v) == <<v>>

\* the message reset_stuck_processing pushes
Sentinel == "Interrupted: found in processing state at pipeline startup"

PlayerIds == 1..NumPlayers

Min(S) == CHOOSE x \in S : \A y \in S : x <= y

-----------------------------------------------------------------------------
(* The tracking collection: src/db/tracking.py *)

\* positions of the documents matching {"api_player_id": id}
MatchId(coll, id) == {k \in DOMAIN coll : coll[k].api_player_id = id}

\* positions of the documents matching {"status": st}
MatchStatus(coll, st) == {k \in DOMAIN coll : coll[k].status = st}

\* cursor over the documents matching {"status": st}, projected on api_player_id
IdsWithStatus(coll, st) == {coll[k].api_player_id : k \in MatchStatus(coll, st)}

get_completed_player_ids(coll) == IdsWithStatus(coll, STATUS_COMPLETED)

get_failed_player_ids(coll) == IdsWithStatus(coll, STATUS_FAILED)

\* PendingSet with retry_count and error_log among the "$set" fields
PendingSetResetsRetries(doc, source_image_url, style, mode, t) ==
    [doc EXCEPT !.status = STATUS_PENDING,
                !.source_image_url = source_image_url,
                !.style = style,
                !.mode = mode,
                !.updated_at = t,
                !.retry_count = 0,
                !.error_log = <<>>]

\* the "$set" part of create_pending_record's update
PendingSet(doc, source_image_url, style, mode, t) ==
    [doc EXCEPT !.status = STATUS_PENDING,
                !.source_image_url = source_image_url,
                !.style = style,
                !.mode = mode,
                !.updated_at = t]

\* the document an upsert inserts: the filter's equality field and "$setOnInsert"
PendingInsert(api_player_id, t) ==
    [api_player_id |-> api_player_id,
     status |-> STATUS_PENDING,
     source_image_url |-> <<>>,
     style |-> "",
     mode |-> "",
     updated_at |-> t,
     created_at |-> t,
     retry_count |-> 0,
     error_log |-> <<>>,
     output_path |-> None,
     generation_duration_seconds |-> None,
     spaces_url |-> None]

\* create_pending_record with insert_one for the upsert
create_pending_record_insert(coll, api_player_id, source_image_url, style, mode, t) ==
    Append(coll, PendingSet(PendingInsert(api_player_id, t), source_image_url, style, mode, t))

\* update_one(filter, update, upsert=True): the first match is updated, and a
\* document is inserted only when nothing matches
create_pending_record(coll, api_player_id, source_image_url, style, mode, t) ==
    LET hits == MatchId(coll, api_player_id)
    IN  IF hits = {}
        THEN Append(coll, PendingSet(PendingInsert(api_player_id, t),
                                     source_image_url, style, mode, t))
        ELSE [coll EXCEPT ![Min(hits)] =
                  PendingSet(@, source_image_url, style, mode, t)]

ProcessingSet(doc, t) ==
    [doc EXCEPT !.status = STATUS_PROCESSING, !.updated_at = t]

\* mark_processing with upsert=True: a missing record is created
mark_processing_upsert(coll, api_player_id, t) ==
    LET hits == MatchId(coll, api_player_id)
    IN  IF hits = {} THEN Append(coll, ProcessingSet(PendingInsert(api_player_id, t), t))
        ELSE [coll EXCEPT ![Min(hits)] = ProcessingSet(@, t)]

\* update_one without upsert: nothing happens when nothing matches
\* mark_processing that writes nothing: the record stays pending
mark_processing_nothing(coll, api_player_id, t) == coll

mark_processing(coll, api_player_id, t) ==
    LET hits == MatchId(coll, api_player_id)
    IN  IF hits = {} THEN coll
        ELSE [coll EXCEPT ![Min(hits)] = ProcessingSet(@, t)]

\* CompletedSet without output_path among the fields
CompletedSetNoPath(doc, output_path, duration_seconds, spaces_url, t) ==
    [doc EXCEPT !.status = STATUS_COMPLETED,
                !.generation_duration_seconds = duration_seconds,
                !.updated_at = t,
                !.spaces_url = IF spaces_url # None THEN spaces_url ELSE @]

\* the fields dict of mark_completed; spaces_url is set only when not None
CompletedSet(doc, output_path, duration_seconds, spaces_url, t) ==
    [doc EXCEPT !.status = STATUS_COMPLETED,
                !.output_path = output_path,
                !.generation_duration_seconds = duration_seconds,
                !.updated_at = t,
                !.spaces_url = IF spaces_url # None THEN spaces_url ELSE @]

\* mark_completed as an update of every record, whatever its api_player_id
mark_completed_many(coll, api_player_id, output_path, duration_seconds, spaces_url, t) ==
    [k \in DOMAIN coll |-> CompletedSet(coll[k], output_path, duration_seconds, spaces_url, t)]

mark_completed(coll, api_player_id, output_path, duration_seconds, spaces_url, t) ==
    LET hits == MatchId(coll, api_player_id)
    IN  IF hits = {} THEN coll
        ELSE [coll EXCEPT ![Min(hits)] =
                  CompletedSet(@, output_path, duration_seconds, spaces_url, t)]

\* FailedUpdate with "$set" of error_log for the "$push"
FailedUpdateRewrites(doc, error_message, t) ==
    [doc EXCEPT !.status = STATUS_FAILED,
                !.updated_at = t,
                !.retry_count = @ + 1,
                !.error_log = <<error_message>>]

\* FailedUpdate without the "$inc"
FailedUpdateNoInc(doc, error_message, t) ==
    [doc EXCEPT !.status = STATUS_FAILED,
                !.updated_at = t,
                !.error_log = Append(@, error_message)]

\* "$set" status and updated_at, "$inc" retry_count, "$push" error_log
\* mark_failed that records the error and leaves the status alone
FailedUpdateKeepsStatus(doc, error_message, t) ==
    [doc EXCEPT !.updated_at = t,
                !.retry_count = @ + 1,
                !.error_log = Append(@, error_message)]

\* mark_failed that charges the attempt twice
FailedUpdateCountsTwice(doc, error_message, t) ==
    [doc EXCEPT !.status = STATUS_FAILED,
                !.updated_at = t,
                !.retry_count = @ + 2,
                !.error_log = Append(@, error_message)]

FailedUpdate(doc, error_message, t) ==
    [doc EXCEPT !.status = STATUS_FAILED,
                !.updated_at = t,
                !.retry_count = @ + 1,
                !.error_log = Append(@, error_message)]

mark_failed(coll, api_player_id, error_message, t) ==
    LET hits == MatchId(coll, api_player_id)
    IN  IF hits = {} THEN coll
        ELSE [coll EXCEPT ![Min(hits)] = FailedUpdate(@, error_message, t)]

\* get_failed_players with "$lte" for "$lt"
get_failed_players_lte(coll, max_retries) ==
    SelectSeq(coll, LAMBDA d : d.status = STATUS_FAILED /\ d.retry_count <= max_retries)

\* find({"status": "failed", "retry_count": {"$lt": max_retries}}), as a list
\* get_failed_players without the retry_count filter
get_failed_players_any(coll, max_retries) ==
    SelectSeq(coll, LAMBDA d : d.status = STATUS_FAILED)

get_failed_players(coll, max_retries) ==
    SelectSeq(coll, LAMBDA d : d.status = STATUS_FAILED /\ d.retry_count < max_retries)

\* StuckUpdate without the "$push"
StuckUpdateNoPush(doc, t) ==
    [doc EXCEPT !.status = STATUS_FAILED,
                !.updated_at = t,
                !.retry_count = @ + 1]

\* the update reset_stuck_processing applies to each matching document
\* the reset that appends the sentinel and leaves retry_count alone
StuckUpdateNoInc(doc, t) ==
    [doc EXCEPT !.status = STATUS_FAILED,
                !.updated_at = t,
                !.error_log = Append(@, Sentinel)]

StuckUpdate(doc, t) ==
    [doc EXCEPT !.status = STATUS_FAILED,
                !.updated_at = t,
                !.retry_count = @ + 1,
                !.error_log = Append(@, Sentinel)]

\* reset_stuck_processing with a filter that matches nothing
reset_stuck_processing_nothing(coll, t) == coll

\* update_many({"status": "processing"}, ...)
reset_stuck_processing(coll, t) ==
    [k \in DOMAIN coll |->
        IF k \in MatchStatus(coll, STATUS_PROCESSING)
        THEN StuckUpdate(coll[k], t)
        ELSE coll[k]]

\* result.modified_count of that update_many, which the function logs
StuckCount(coll) == Cardinality(MatchStatus(coll, STATUS_PROCESSING))

\* what the call evaluates to: the function ends without a return statement
reset_stuck_processing_returns(coll) == None

-----------------------------------------------------------------------------
(* Inputs *)

\* image URLs as character sequences: empty, whitespace only, and a URL
EmptyImage == <<>>
BlankImage == <<" ", " ">>
Url(i) == <<"u", ToString(i)>>

\* {pid}_generated.png under the output directory (runner.py line 187)
OutputPath(pid) == <<"out", ToString(pid), "_generated.png">>

\* the CDN URL upload_image_to_spaces returns for a player
CdnUrl(pid) == <<"cdn", "image_pipeline", ToString(pid), ".png">>

\* f"{type(e).__name__}: {str(e)}" of an exception that download, generation,
\* upload or the removal of the source image raised
ExternalError == "Exception: step failed"

\* the same for the FileNotFoundError of runner.py line 192
OutputMissing == "FileNotFoundError: Output file not created"

ErrorMessages == {ExternalError, OutputMissing}

\* (source_image_url, style, mode) of a create_pending_record call
CallParams ==
    {[url |-> Url(1), style |-> "Photo", mode |-> "General"],
     [url |-> Url(2), style |-> "Anime", mode |-> "Portrait"]}

Keys == 1..NumKeys

-----------------------------------------------------------------------------
(* The players collection: src/db/source.py *)

\* a player document under DEFAULT_PROJECTION
PlayerDoc(i, image) == [api_player_id |-> i, image |-> image]

\* a source collection, in natural order, in which every second player has
\* a whitespace image and the others have a URL
Players ==
    [i \in 1..NumPlayers |-> PlayerDoc(i, IF i % 2 = 0 THEN BlankImage ELSE Url(i))]

\* a source collection of two players, the second with an empty image
TwoPlayers == <<PlayerDoc(1, Url(1)), PlayerDoc(2, EmptyImage)>>

\* the source collections runs are checked with
Sources == {Players, TwoPlayers}

\* cursor.limit(limit) when limit > 0
Limited(docs, limit) ==
    IF limit > 0 /\ limit < Len(docs) THEN SubSeq(docs, 1, limit) ELSE docs

\* find(query, projection) with the optional limit; the query is the set of
\* ids it matches
get_all_players(src, matching, limit) ==
    Limited(SelectSeq(src, LAMBDA d : d.api_player_id \in matching), limit)

\* filter_query = {"api_player_id": {"$in": api_player_ids}}, no limit
get_players_by_ids(src, api_player_ids) ==
    get_all_players(src, api_player_ids, 0)

-----------------------------------------------------------------------------
(* Work-list resolution: src/pipeline/runner.py lines 92-136 *)

IsSpace(c) == c \in {" ", "\t", "\n"}

RECURSIVE LStrip(_)
LStrip(s) == IF s # <<>> /\ IsSpace(Head(s)) THEN LStrip(Tail(s)) ELSE s

RECURSIVE RStrip(_)
RStrip(s) ==
    IF s # <<>> /\ IsSpace(s[Len(s)]) THEN RStrip(SubSeq(s, 1, Len(s) - 1)) ELSE s

\* str.strip()
Strip(s) == RStrip(LStrip(s))

\* HasImage without the strip()
HasImageNoStrip(p) == p.image # <<>>

\* p.get("image", "").strip() is truthy
HasImage(p) == Strip(p.image) # <<>>

\* a tracking record as a player-like dict: item["image"] = source_image_url
AsPlayer(doc) == [api_player_id |-> doc.api_player_id, image |-> doc.source_image_url]

\* the work list of a retry run (lines 95-102)
RetryWorkList(coll, max_retries) ==
    LET recs == get_failed_players(coll, max_retries)
    IN  [k \in DOMAIN recs |-> AsPlayer(recs[k])]

\* SkipIds without the failed ids
SkipIdsCompletedOnly(completed_ids, failed_ids) == completed_ids

\* skip_ids = completed_ids | failed_ids (line 122)
SkipIds(completed_ids, failed_ids) == completed_ids \cup failed_ids

\* [p for p in players if p.get("api_player_id") not in skip_ids] (line 123)
\* the work list with nothing skipped
NotSkippedAtAll(players, skip_ids) == players

NotSkipped(players, skip_ids) ==
    SelectSeq(players, LAMBDA p : p.api_player_id \notin skip_ids)

\* CountIn counting the ids of the collection, not the candidates among them
CountInStore(players, ids) == Cardinality(ids)

\* len([p for p in players if p.get("api_player_id") in ids]) (lines 124-125)
CountIn(players, ids) ==
    Len(SelectSeq(players, LAMBDA p : p.api_player_id \in ids))

\* [p for p in work_list if not p.get("image", "").strip()] (line 129)
NoImage(work_list) == SelectSeq(work_list, LAMBDA p : ~HasImage(p))

\* [p for p in work_list if p.get("image", "").strip()] (line 135)
WithImage(work_list) == SelectSeq(work_list, LAMBDA p : HasImage(p))

\* the summary dict of a run that processed its work list (lines 225-233)
Summary(r) ==
    [total_fetched |-> r.total_fetched,
     skipped_completed |-> r.skipped_completed,
     skipped_failed |-> r.skipped_failed,
     skipped_no_image |-> r.skipped_no_image,
     processed |-> r.succeeded + r.failed,
     succeeded |-> r.succeeded,
     failed |-> r.failed]

\* the summary dict of a run with nothing to do (lines 146-154)
NothingToDo(r) ==
    [total_fetched |-> r.total_fetched,
     skipped_completed |-> r.skipped_completed,
     skipped_failed |-> r.skipped_failed,
     skipped_no_image |-> r.skipped_no_image,
     processed |-> 0,
     succeeded |-> 0,
     failed |-> 0]

-----------------------------------------------------------------------------
(* run_pipeline: src/pipeline/runner.py.  proc[p] is the state of process   *)
(* p: its position pc and the local variables of run_pipeline.              *)

\* no run: the process is not alive
NoRun == [pc |-> "idle"]

\* the exit codes of the entry point: main() returning, and sys.exit(1)
EXIT_OK == 0
EXIT_FAILURE == 1

\* the process has exited with a code; fatal tells whether it stopped on a
\* setup-level error: a filter that is not JSON, or an error dict from run_pipeline
Exited(exit_code, fatal) ==
    [pc |-> "idle", exit_code |-> exit_code, fatal |-> fatal]

\* the locals of a run that passed setup, about to recover stuck records
NewRun(args) ==
    [pc |-> "reset",
     retry_failed |-> args.retry_failed,
     max_retries |-> args.max_retries,
     player_ids |-> args.player_ids,
     limit |-> args.limit,
     style |-> args.style,
     mode |-> args.mode,
     resets |-> 0,
     players |-> <<>>,
     completed_ids |-> {},
     failed_ids |-> {},
     work_list |-> <<>>,
     total_fetched |-> 0,
     skipped_completed |-> 0,
     skipped_failed |-> 0,
     skipped_no_image |-> 0,
     i |-> 0,
     output_exists |-> FALSE,
     succeeded |-> 0,
     failed |-> 0,
     summary |-> None]

\* a run that returned {"error": ...} during setup (lines 53-72)
SetupFailed(error) == [pc |-> "done", resets |-> 0, summary |-> Some([error |-> error])]

SetupErrors == {"Empty prompt", "Login failed", "Session invalid after login"}

Procs == DOMAIN proc

Alive(p) == proc[p].pc \notin {"idle", "done"}

\* the player the executor is attempting
Player(p) == proc[p].work_list[proc[p].i]

-----------------------------------------------------------------------------
(* Actions of a run *)

\* the process starts and run_pipeline passes setup (lines 46-86)
Start(p, args) ==
    /\ proc[p].pc = "idle"
    /\ proc' = [proc EXCEPT ![p] = NewRun(args)]
    /\ UNCHANGED <<tracking, source, now, ops, returned>>

\* a run started while no other process is running
StartRun(p, args) ==
    /\ \A q \in Procs \ {p} : proc[q].pc = "idle"
    /\ Start(p, args)

\* the process starts with a --filter that is not JSON: main() exits with 1
\* before it calls run_pipeline (run_pipeline.py lines 70-75)
BadFilter(p) ==
    /\ proc[p].pc = "idle"
    /\ \A q \in Procs \ {p} : proc[q].pc = "idle"
    /\ proc' = [proc EXCEPT ![p] = Exited(EXIT_FAILURE, TRUE)]
    /\ UNCHANGED <<tracking, source, now, ops, returned>>

\* StartRunFails with the setup checks placed after reset_stuck_processing
StartRunFailsAfterReset(p, error) ==
    /\ proc[p].pc = "idle"
    /\ \A q \in Procs \ {p} : proc[q].pc = "idle"
    /\ tracking' = reset_stuck_processing(tracking, now)
    /\ proc' = [proc EXCEPT ![p] = SetupFailed(error)]
    /\ UNCHANGED <<source, now, ops, returned>>

\* the process starts and run_pipeline returns an error dict (lines 53-72)
StartRunFails(p, error) ==
    /\ proc[p].pc = "idle"
    /\ \A q \in Procs \ {p} : proc[q].pc = "idle"
    /\ proc' = [proc EXCEPT ![p] = SetupFailed(error)]
    /\ UNCHANGED <<tracking, source, now, ops, returned>>

\* line 90
ResetStuck(p) ==
    /\ proc[p].pc = "reset"
    /\ tracking' = reset_stuck_processing(tracking, now)
    /\ proc' = [proc EXCEPT ![p].pc = "resolve", ![p].resets = @ + 1]
    /\ UNCHANGED <<source, now, ops, returned>>

\* lines 93-102
FetchFailed(p) ==
    /\ proc[p].pc = "resolve"
    /\ proc[p].retry_failed
    /\ LET wl == RetryWorkList(tracking, proc[p].max_retries)
       IN  proc' = [proc EXCEPT ![p].pc = "filter",
                                ![p].work_list = wl,
                                ![p].total_fetched = Len(wl),
                                ![p].skipped_completed = 0,
                                ![p].skipped_failed = 0]
    /\ UNCHANGED <<tracking, source, now, ops, returned>>

\* lines 104-117
FetchPlayers(p) ==
    /\ proc[p].pc = "resolve"
    /\ ~proc[p].retry_failed
    /\ LET players == IF proc[p].player_ids # {}
                      THEN get_players_by_ids(source, proc[p].player_ids)
                      ELSE get_all_players(source, PlayerIds, proc[p].limit)
       IN  proc' = [proc EXCEPT ![p].pc = "completed_ids",
                                ![p].players = players,
                                ![p].total_fetched = Len(players)]
    /\ UNCHANGED <<tracking, source, now, ops, returned>>

\* line 120
ReadCompleted(p) ==
    /\ proc[p].pc = "completed_ids"
    /\ proc' = [proc EXCEPT ![p].pc = "failed_ids",
                             ![p].completed_ids = get_completed_player_ids(tracking)]
    /\ UNCHANGED <<tracking, source, now, ops, returned>>

\* lines 121-126
ReadFailed(p) ==
    /\ proc[p].pc = "failed_ids"
    /\ LET failed_ids == get_failed_player_ids(tracking)
           skip_ids == SkipIds(proc[p].completed_ids, failed_ids)
       IN  proc' = [proc EXCEPT
               ![p].pc = "filter",
               ![p].failed_ids = failed_ids,
               ![p].work_list = NotSkipped(proc[p].players, skip_ids),
               ![p].skipped_completed = CountIn(proc[p].players, proc[p].completed_ids),
               ![p].skipped_failed = CountIn(proc[p].players, failed_ids)]
    /\ UNCHANGED <<tracking, source, now, ops, returned>>

\* lines 128-154: the missing-image filter, and the early return
FilterNoImage(p) ==
    /\ proc[p].pc = "filter"
    /\ LET work_list == WithImage(proc[p].work_list)
           r == [proc[p] EXCEPT !.work_list = work_list,
                                !.skipped_no_image = Len(NoImage(proc[p].work_list))]
       IN  proc' = [proc EXCEPT ![p] =
               IF work_list = <<>>
               THEN [r EXCEPT !.pc = "done", !.summary = Some(NothingToDo(r))]
               ELSE [r EXCEPT !.pc = "pending", !.i = 1]]
    /\ UNCHANGED <<tracking, source, now, ops, returned>>

\* line 180
CreatePending(p) ==
    /\ proc[p].pc = "pending"
    /\ tracking' = create_pending_record(tracking, Player(p).api_player_id,
                        Player(p).image, proc[p].style, proc[p].mode, now)
    /\ proc' = [proc EXCEPT ![p].pc = "processing"]
    /\ UNCHANGED <<source, now, ops, returned>>

\* line 181
\* mark_processing left out: the external steps start on a pending record
MarkProcessingSkipped(p) ==
    /\ proc[p].pc = "processing"
    /\ proc' = [proc EXCEPT ![p].pc = "download"]
    /\ UNCHANGED <<tracking, source, now, ops, returned>>

MarkProcessing(p) ==
    /\ proc[p].pc = "processing"
    /\ tracking' = mark_processing(tracking, Player(p).api_player_id, now)
    /\ proc' = [proc EXCEPT ![p].pc = "download"]
    /\ UNCHANGED <<source, now, ops, returned>>

\* the end of an iteration of the loop (line 167), and lines 225-235 after
\* the last one
NextPlayer(r) ==
    IF r.i < Len(r.work_list)
    THEN [r EXCEPT !.pc = "pending", !.i = r.i + 1]
    ELSE [r EXCEPT !.pc = "done", !.summary = Some(Summary(r))]

\* Except with the exception leaving the loop: the run ends at the first failure
ExceptAborts(p, error_msg) ==
    /\ tracking' = mark_failed(tracking, Player(p).api_player_id, error_msg, now)
    /\ proc' = [proc EXCEPT ![p] =
           [proc[p] EXCEPT !.pc = "done", !.failed = @ + 1,
                           !.summary = Some(Summary([proc[p] EXCEPT !.failed = @ + 1]))]]
    /\ UNCHANGED <<source, now, ops, returned>>

\* the except block (lines 208-217): mark_failed, count, best-effort screenshot
Except(p, error_msg) ==
    /\ tracking' = mark_failed(tracking, Player(p).api_player_id, error_msg, now)
    /\ proc' = [proc EXCEPT ![p] = NextPlayer([proc[p] EXCEPT !.failed = @ + 1])]
    /\ UNCHANGED <<source, now, ops, returned>>

\* a step of the try block that changes nothing in the tracking collection
Proceed(p, pc) ==
    /\ proc' = [proc EXCEPT ![p].pc = pc]
    /\ UNCHANGED <<tracking, source, now, ops, returned>>

\* line 184: download_player_image returns
Download(p) ==
    /\ proc[p].pc = "download"
    /\ Proceed(p, "generate")

\* line 184: download_player_image raises
DownloadRaises(p) ==
    /\ proc[p].pc = "download"
    /\ Except(p, ExternalError)

\* lines 187-188: run_generation_on_page returns, having written the output
\* file or not
Generate(p, written) ==
    /\ proc[p].pc = "generate"
    /\ proc' = [proc EXCEPT ![p].pc = "verify", ![p].output_exists = written]
    /\ UNCHANGED <<tracking, source, now, ops, returned>>

\* line 188: run_generation_on_page raises
GenerateRaises(p) ==
    /\ proc[p].pc = "generate"
    /\ Except(p, ExternalError)

\* lines 191-192, the output file exists
\* the output check left out: the upload follows generation whatever was written
VerifySkipsCheck(p) ==
    /\ proc[p].pc = "verify"
    /\ Proceed(p, "upload")

Verify(p) ==
    /\ proc[p].pc = "verify"
    /\ proc[p].output_exists
    /\ Proceed(p, "upload")

\* lines 191-192, the output file is absent: FileNotFoundError
VerifyRaises(p) ==
    /\ proc[p].pc = "verify"
    /\ ~proc[p].output_exists
    /\ Except(p, OutputMissing)

\* line 196: upload_image_to_spaces returns the CDN URL
Upload(p) ==
    /\ proc[p].pc = "upload"
    /\ Proceed(p, "complete")

\* line 196: upload_image_to_spaces raises
UploadRaises(p) ==
    /\ proc[p].pc = "upload"
    /\ Except(p, ExternalError)

\* lines 198-199: duration is the elapsed time since start_time
Complete(p, duration) ==
    /\ proc[p].pc = "complete"
    /\ tracking' = mark_completed(tracking, Player(p).api_player_id,
                        Some(OutputPath(Player(p).api_player_id)), Some(duration),
                        Some(CdnUrl(Player(p).api_player_id)), now)
    /\ proc' = [proc EXCEPT ![p].pc = "cleanup"]
    /\ UNCHANGED <<source, now, ops, returned>>

\* lines 201-206: the source image is removed, and the item counted
Cleanup(p) ==
    /\ proc[p].pc = "cleanup"
    /\ proc' = [proc EXCEPT ![p] = NextPlayer([proc[p] EXCEPT !.succeeded = @ + 1])]
    /\ UNCHANGED <<tracking, source, now, ops, returned>>

\* line 203: os.remove raises, inside the try block
CleanupRaises(p) ==
    /\ proc[p].pc = "cleanup"
    /\ Except(p, ExternalError)

\* run_pipeline has returned: main() prints what it got and returns, so the
\* process exits with 0 (run_pipeline.py lines 79-97)
Exit(p) ==
    /\ proc[p].pc = "done"
    /\ proc' = [proc EXCEPT ![p] = Exited(EXIT_OK, "error" \in DOMAIN proc[p].summary[1])]
    /\ UNCHANGED <<tracking, source, now, ops, returned>>

\* the process is killed: its locals are lost, the collection stays as it is
Kill(p) ==
    /\ Alive(p)
    /\ proc' = [proc EXCEPT ![p] = NoRun]
    /\ UNCHANGED <<tracking, source, now, ops, returned>>

\* the default of --max-retries (runner.py line 37)
DefaultMaxRetries == 3

\* the arguments runs are started with: --retry-failed with a threshold, or a
\* default run with --player-ids naming one player, or with --limit, or with
\* neither
Args(retry_failed, max_retries, player_ids, limit) ==
    [retry_failed |-> retry_failed, max_retries |-> max_retries,
     player_ids |-> player_ids, limit |-> limit, style |-> "Photo", mode |-> "General"]

RunArgs ==
    {Args(TRUE, m, {}, 0) : m \in 1..MaxRetriesArg}
    \cup {Args(FALSE, DefaultMaxRetries, ids, 0) : ids \in {S \in SUBSET PlayerIds : Cardinality(S) <= 1}}
    \cup {Args(FALSE, DefaultMaxRetries, {}, l) : l \in 1..NumPlayers}

Init ==
    /\ tracking = <<>>
    /\ source \in Sources
    /\ now = 0
    /\ proc = [p \in {1} |-> NoRun]
    /\ ops = 0
    /\ returned = None

Next ==
    \/ \E p \in Procs, args \in RunArgs : StartRun(p, args)
    \/ \E p \in Procs : BadFilter(p)
    \/ \E p \in Procs, error \in SetupErrors : StartRunFails(p, error)
    \/ \E p \in Procs : ResetStuck(p)
    \/ \E p \in Procs : FetchFailed(p)
    \/ \E p \in Procs : FetchPlayers(p)
    \/ \E p \in Procs : ReadCompleted(p)
    \/ \E p \in Procs : ReadFailed(p)
    \/ \E p \in Procs : FilterNoImage(p)
    \/ \E p \in Procs : CreatePending(p)
    \/ \E p \in Procs : MarkProcessing(p)
    \/ \E p \in Procs : Download(p)
    \/ \E p \in Procs : DownloadRaises(p)
    \/ \E p \in Procs, written \in BOOLEAN : Generate(p, written)
    \/ \E p \in Procs : GenerateRaises(p)
    \/ \E p \in Procs : Verify(p)
    \/ \E p \in Procs : VerifyRaises(p)
    \/ \E p \in Procs : Upload(p)
    \/ \E p \in Procs : UploadRaises(p)
    \/ \E p \in Procs, duration \in Durations : Complete(p, duration)
    \/ \E p \in Procs : Cleanup(p)
    \/ \E p \in Procs : CleanupRaises(p)
    \/ \E p \in Procs : Exit(p)
    \/ \E p \in Procs : Kill(p)

Spec == Init /\ [][Next]_vars

-----------------------------------------------------------------------------
(* The store harness: any sequence of at most MaxOps calls of the tracking  *)
(* operations, with the clock advancing between them.                       *)

InitStore ==
    /\ tracking = <<>>
    /\ source = <<>>
    /\ now = 0
    /\ proc = [p \in {1} |-> NoRun]
    /\ ops = 0
    /\ returned = None

Tick ==
    /\ now < MaxClock
    /\ now' = now + 1
    /\ UNCHANGED <<tracking, source, proc, ops, returned>>

\* a call of a store operation: the collection after it and the value it returns
Call(coll, value) ==
    /\ ops < MaxOps
    /\ ops' = ops + 1
    /\ tracking' = coll
    /\ returned' = value
    /\ UNCHANGED <<source, now, proc>>

CallCreatePending(id, prm) ==
    Call(create_pending_record(tracking, id, prm.url, prm.style, prm.mode, now), None)

CallMarkProcessing(id) ==
    Call(mark_processing(tracking, id, now), None)

CallMarkCompleted(id, d, url) ==
    Call(mark_completed(tracking, id, Some(OutputPath(id)), Some(d), url, now), None)

CallMarkFailed(id, msg) ==
    Call(mark_failed(tracking, id, msg, now), None)

CallResetStuck ==
    Call(reset_stuck_processing(tracking, now), reset_stuck_processing_returns(tracking))

NextStore ==
    \/ Tick
    \/ \E id \in Keys, prm \in CallParams : CallCreatePending(id, prm)
    \/ \E id \in Keys : CallMarkProcessing(id)
    \/ \E id \in Keys, d \in Durations :
           \E url \in {None, Some(CdnUrl(id))} : CallMarkCompleted(id, d, url)
    \/ \E id \in Keys, msg \in ErrorMessages : CallMarkFailed(id, msg)
    \/ CallResetStuck

SpecStore == InitStore /\ [][NextStore]_vars

-----------------------------------------------------------------------------
(* Overlapping runs: two processes started separately on the same tracking *)
(* collection, each step of one interleaved with the steps of the other,   *)
(* with the clock advancing.  Each process runs once, to its exit; what    *)
(* earlier runs and kills left behind is in the initial collection.  Every *)
(* store operation is one step: MongoDB applies an update to a document    *)
(* atomically.                                                             *)

\* the arguments overlapping runs are started with: a default run, a default
\* run with --style and --mode, and a --retry-failed run
OverlapArgs ==
    {Args(FALSE, DefaultMaxRetries, {}, 0),
     [Args(FALSE, DefaultMaxRetries, {}, 0) EXCEPT !.style = "Anime", !.mode = "Portrait"],
     Args(TRUE, MaxRetriesArg, {}, 0)}

\* what one run that attempted player 1 can leave behind: a completed record,
\* a failed one, and one left in processing by a kill
Attempted == mark_processing(create_pending_record(<<>>, 1, Url(1), "Photo", "General", 0), 1, 0)

Leftovers ==
    {<<>>,
     mark_completed(Attempted, 1, Some(OutputPath(1)), Some(0), Some(CdnUrl(1)), 0),
     mark_failed(Attempted, 1, ExternalError, 0),
     Attempted}

\* a process that has not run yet starts a run beside the other
StartBeside(p, args) ==
    /\ proc[p] = NoRun
    /\ Start(p, args)

InitOverlap ==
    /\ tracking \in Leftovers
    /\ source = TwoPlayers
    /\ now = 0
    /\ proc = [p \in {1, 2} |-> NoRun]
    /\ ops = 0
    /\ returned = None

NextOverlap ==
    \/ Tick
    \/ \E p \in Procs, args \in OverlapArgs : StartBeside(p, args)
    \/ \E p \in Procs : ResetStuck(p)
    \/ \E p \in Procs : FetchFailed(p)
    \/ \E p \in Procs : FetchPlayers(p)
    \/ \E p \in Procs : ReadCompleted(p)
    \/ \E p \in Procs : ReadFailed(p)
    \/ \E p \in Procs : FilterNoImage(p)
    \/ \E p \in Procs : CreatePending(p)
    \/ \E p \in Procs : MarkProcessing(p)
    \/ \E p \in Procs : Download(p)
    \/ \E p \in Procs : DownloadRaises(p)
    \/ \E p \in Procs, written \in BOOLEAN : Generate(p, written)
    \/ \E p \in Procs : GenerateRaises(p)
    \/ \E p \in Procs : Verify(p)
    \/ \E p \in Procs : VerifyRaises(p)
    \/ \E p \in Procs : Upload(p)
    \/ \E p \in Procs : UploadRaises(p)
    \/ \E p \in Procs, duration \in Durations : Complete(p, duration)
    \/ \E p \in Procs : Cleanup(p)
    \/ \E p \in Procs : CleanupRaises(p)
    \/ \E p \in Procs : Exit(p)

SpecOverlap == InitOverlap /\ [][NextOverlap]_vars

-----------------------------------------------------------------------------
(* Vocabulary of the properties *)

\* the documents of the collection with a given api_player_id
DocsOf(coll, id) == {coll[k] : k \in MatchId(coll, id)}

\* the ids with at least one document of a given status
HavingStatus(coll, st) == {d.api_player_id : d \in {coll[k] : k \in {j \in DOMAIN coll : coll[j].status = st}}}

\* an image with nothing but whitespace in it
IsBlank(image) == \A k \in DOMAIN image : image[k] \in {" ", "\t", "\n"}

IsPrefix(s, t) == Len(s) <= Len(t) /\ \A k \in DOMAIN s : s[k] = t[k]

\* sub takes its elements from seq, each at most once, in the order of seq
InOrderOf(sub, seq) ==
    \E f \in [DOMAIN sub -> DOMAIN seq] :
        /\ \A k \in DOMAIN sub : seq[f[k]] = sub[k]
        /\ \A j, k \in DOMAIN sub : j < k => f[j] < f[k]

\* run_pipeline returned a summary dict (not an error dict)
Returned(p) == proc[p].pc = "done" /\ "error" \notin DOMAIN proc[p].summary[1]

\* the positions of run_pipeline inside the loop over the work list
InLoop(p) ==
    proc[p].pc \in {"pending", "processing", "download", "generate", "verify",
                    "upload", "complete", "cleanup"}

-----------------------------------------------------------------------------
(* C1: reset_stuck_processing turns every record whose status is           *)
(* processing into failed, with retry_count one higher and the sentinel    *)
(* appended as the last element of error_log, and leaves every other       *)
(* record as it was.                                                       *)

C1_ResetDemotesStuck ==
    [][\A p \in DOMAIN proc : ResetStuck(p) =>
        /\ DOMAIN tracking' = DOMAIN tracking
        /\ \A k \in DOMAIN tracking :
              IF tracking[k].status = STATUS_PROCESSING
              THEN /\ tracking'[k].api_player_id = tracking[k].api_player_id
                   /\ tracking'[k].status = STATUS_FAILED
                   /\ tracking'[k].retry_count = tracking[k].retry_count + 1
                   /\ tracking'[k].error_log = Append(tracking[k].error_log, Sentinel)
              ELSE tracking'[k] = tracking[k]]_vars

\* a run has just recovered: a record killed in its first attempt is failed
\* with the sentinel alone, beside a completed record
C1_StuckRecordDemoted ==
    \E p \in DOMAIN proc :
        /\ proc[p].pc = "resolve"
        /\ \E k \in DOMAIN tracking :
              /\ tracking[k].status = STATUS_FAILED
              /\ tracking[k].retry_count = 1
              /\ tracking[k].error_log = <<Sentinel>>
        /\ \E k \in DOMAIN tracking : tracking[k].status = STATUS_COMPLETED

-----------------------------------------------------------------------------
(* C2: in a default run the work list before the missing-image filter is   *)
(* the candidates whose id is neither completed nor failed in the          *)
(* tracking collection, in the order the source returned them.             *)

C2_DefaultWorkList ==
    \A p \in DOMAIN proc :
        (proc[p].pc = "filter" /\ ~proc[p].retry_failed) =>
            LET players == proc[p].players
                work_list == proc[p].work_list
                skipped == HavingStatus(tracking, STATUS_COMPLETED)
                               \cup HavingStatus(tracking, STATUS_FAILED)
            IN  /\ InOrderOf(players, source)
                /\ InOrderOf(work_list, players)
                /\ {work_list[k] : k \in DOMAIN work_list}
                      = {players[k] : k \in {j \in DOMAIN players :
                                                players[j].api_player_id \notin skipped}}

\* three candidates, the first completed and the last failed: the work list
\* is the one in between
C2_SkipsCompletedAndFailed ==
    \E p \in DOMAIN proc :
        /\ proc[p].pc = "filter"
        /\ ~proc[p].retry_failed
        /\ Len(proc[p].players) = 3
        /\ proc[p].players[1].api_player_id \in HavingStatus(tracking, STATUS_COMPLETED)
        /\ proc[p].players[3].api_player_id \in HavingStatus(tracking, STATUS_FAILED)
        /\ proc[p].work_list = <<proc[p].players[2]>>

-----------------------------------------------------------------------------
(* C3: in a retry run the work list before the missing-image filter is the *)
(* records that are failed with retry_count < max_retries after the run's  *)
(* recovery, each with its stored source_image_url as image; the source is *)
(* not read and nothing is counted as skipped completed or failed.         *)

C3_RetryWorkList ==
    \A p \in DOMAIN proc :
        (proc[p].pc \notin {"idle", "done", "reset", "resolve"} /\ proc[p].retry_failed) =>
            /\ proc[p].players = <<>>
            /\ proc[p].skipped_completed = 0
            /\ proc[p].skipped_failed = 0
            /\ proc[p].pc = "filter" =>
                  LET work_list == proc[p].work_list
                      eligible == {k \in DOMAIN tracking :
                                      /\ tracking[k].status = STATUS_FAILED
                                      /\ tracking[k].retry_count < proc[p].max_retries}
                  IN  /\ Len(work_list) = Cardinality(eligible)
                      /\ proc[p].total_fetched = Cardinality(eligible)
                      /\ \A k \in eligible :
                            \E j \in DOMAIN work_list :
                                /\ work_list[j].api_player_id = tracking[k].api_player_id
                                /\ work_list[j].image = tracking[k].source_image_url
            /\ InLoop(p) /\ proc[p].pc # "pending" =>
                  \A d \in DocsOf(tracking, Player(p).api_player_id) :
                      d.source_image_url = Player(p).image

\* a retry run resolved a work list that takes one failed record and leaves
\* out another, which has used up its retries
C3_RetryTakesEligibleOnly ==
    \E p \in DOMAIN proc :
        /\ proc[p].pc = "filter"
        /\ proc[p].retry_failed
        /\ Len(proc[p].work_list) = 1
        /\ \E k \in DOMAIN tracking :
              /\ tracking[k].status = STATUS_FAILED
              /\ tracking[k].retry_count >= proc[p].max_retries

-----------------------------------------------------------------------------
(* C4: whichever of fetch, generate, output check and publish fail, the    *)
(* loop goes on: while item i is attempted the i-1 items before it are     *)
(* completed or failed and counted, and when the run returns every item of *)
(* the work list is completed or failed and processed is the length of the *)
(* work list.                                                              *)

Terminal(id) ==
    /\ DocsOf(tracking, id) # {}
    /\ \A d \in DocsOf(tracking, id) : d.status \in {STATUS_COMPLETED, STATUS_FAILED}

C4_FailureDoesNotAbortBatch ==
    \A p \in DOMAIN proc :
        /\ InLoop(p) =>
              /\ proc[p].i \in 1..Len(proc[p].work_list)
              /\ proc[p].succeeded + proc[p].failed = proc[p].i - 1
              /\ \A k \in 1..(proc[p].i - 1) : Terminal(proc[p].work_list[k].api_player_id)
        /\ Returned(p) =>
              /\ proc[p].summary[1].processed = Len(proc[p].work_list)
              /\ \A k \in DOMAIN proc[p].work_list :
                    Terminal(proc[p].work_list[k].api_player_id)

\* a run returned after its first item failed and its second was completed
C4_SecondItemDoneAfterFailure ==
    \E p \in DOMAIN proc :
        /\ Returned(p)
        /\ Len(proc[p].work_list) = 2
        /\ proc[p].summary[1].failed = 1
        /\ \A d \in DocsOf(tracking, proc[p].work_list[1].api_player_id) :
              d.status = STATUS_FAILED
        /\ \A d \in DocsOf(tracking, proc[p].work_list[2].api_player_id) :
              d.status = STATUS_COMPLETED

-----------------------------------------------------------------------------
(* C5: after create_pending_record the collection holds exactly one record *)
(* for the id; it is pending with the call's source_image_url, style and   *)
(* mode, and created_at, retry_count and error_log are what they were, or  *)
(* now, 0 and empty when there was no record.                              *)

C5_UpsertPending ==
    [][\A id \in Keys, prm \in CallParams : CallCreatePending(id, prm) =>
        LET before == DocsOf(tracking, id)
            after == MatchId(tracking', id)
        IN  /\ Cardinality(after) = 1
            /\ \A k \in after :
                  /\ tracking'[k].status = STATUS_PENDING
                  /\ tracking'[k].source_image_url = prm.url
                  /\ tracking'[k].style = prm.style
                  /\ tracking'[k].mode = prm.mode
                  /\ IF before = {}
                     THEN /\ tracking'[k].created_at = now
                          /\ tracking'[k].retry_count = 0
                          /\ tracking'[k].error_log = <<>>
                     ELSE \A b \in before :
                          /\ tracking'[k].created_at = b.created_at
                          /\ tracking'[k].retry_count = b.retry_count
                          /\ tracking'[k].error_log = b.error_log]_vars

\* a record that failed was upserted again, later and with other parameters
C5_UpsertOnFailedRecord ==
    \E k \in DOMAIN tracking :
        /\ tracking[k].status = STATUS_PENDING
        /\ tracking[k].retry_count = 1
        /\ tracking[k].created_at < tracking[k].updated_at
        /\ tracking[k].style = "Anime"

-----------------------------------------------------------------------------
(* C6: no store operation lowers a record's retry_count or changes what is *)
(* already in its error_log, and mark_failed on an existing record raises  *)
(* retry_count by one and appends its message.                             *)

C6_RetryAccounting ==
    [][/\ \A k \in DOMAIN tracking :
             /\ k \in DOMAIN tracking'
             /\ tracking'[k].api_player_id = tracking[k].api_player_id
             /\ tracking'[k].retry_count >= tracking[k].retry_count
             /\ IsPrefix(tracking[k].error_log, tracking'[k].error_log)
       /\ \A id \in Keys, msg \in ErrorMessages : CallMarkFailed(id, msg) =>
             \A k \in MatchId(tracking, id) :
                 /\ tracking'[k].retry_count = tracking[k].retry_count + 1
                 /\ tracking'[k].error_log = Append(tracking[k].error_log, msg)]_vars

\* three mark_failed calls on a fresh record, with different messages
C6_ThreeFailuresInOrder ==
    \E k \in DOMAIN tracking :
        /\ tracking[k].retry_count = 3
        /\ tracking[k].error_log = <<OutputMissing, ExternalError, OutputMissing>>

-----------------------------------------------------------------------------
(* C7: a candidate whose image is empty or whitespace is taken out of the  *)
(* work list and counted in skipped_no_image, and no record of the         *)
(* tracking collection is ever created for it.                             *)

C7_MissingImageExcluded ==
    /\ \A k \in DOMAIN tracking :
          /\ ~IsBlank(tracking[k].source_image_url)
          /\ \A j \in DOMAIN source :
                source[j].api_player_id = tracking[k].api_player_id
                    => ~IsBlank(source[j].image)
    /\ \A p \in DOMAIN proc :
          (InLoop(p) \/ Returned(p)) =>
              /\ \A k \in DOMAIN proc[p].work_list : ~IsBlank(proc[p].work_list[k].image)
              /\ ~proc[p].retry_failed =>
                    LET players == proc[p].players
                        kept == {j \in DOMAIN players :
                                    players[j].api_player_id
                                        \notin proc[p].completed_ids \cup proc[p].failed_ids}
                        blank == {j \in kept : IsBlank(players[j].image)}
                    IN  /\ proc[p].skipped_no_image = Cardinality(blank)
                        /\ {proc[p].work_list[k] : k \in DOMAIN proc[p].work_list}
                              = {players[j] : j \in kept \ blank}

\* a run attempts a player after it skipped a candidate with a whitespace image
C7_WhitespaceImageSkipped ==
    \E p \in DOMAIN proc :
        /\ InLoop(p)
        /\ proc[p].skipped_no_image = 1
        /\ \E j \in DOMAIN proc[p].players : proc[p].players[j].image = BlankImage

-----------------------------------------------------------------------------
(* C8: in every summary a run returns, processed = succeeded + failed and  *)
(* total_fetched = the length of the final work list + skipped_completed   *)
(* + skipped_failed + skipped_no_image.                                    *)

C8_SummaryArithmetic ==
    \A p \in DOMAIN proc :
        Returned(p) =>
            LET summary == proc[p].summary[1]
            IN  /\ summary.processed = summary.succeeded + summary.failed
                /\ summary.total_fetched =
                      Len(proc[p].work_list) + summary.skipped_completed
                          + summary.skipped_failed + summary.skipped_no_image

\* a default run returned: one candidate was completed, one had no image,
\* and the one it processed failed
C8_SummaryOfMixedRun ==
    \E p \in DOMAIN proc :
        /\ Returned(p)
        /\ ~proc[p].retry_failed
        /\ proc[p].summary[1].skipped_completed = 1
        /\ proc[p].summary[1].skipped_no_image = 1
        /\ proc[p].summary[1].processed = 1
        /\ proc[p].summary[1].failed = 1

-----------------------------------------------------------------------------
(* C9: every record whose status is failed has a non-empty error_log and   *)
(* retry_count >= 1.                                                       *)

C9_FailedHasHistory ==
    \A k \in DOMAIN tracking :
        tracking[k].status = STATUS_FAILED =>
            /\ tracking[k].error_log # <<>>
            /\ tracking[k].retry_count >= 1

\* a record failed by reset_stuck_processing and then by mark_failed
C9_FailedBothWays ==
    \E k \in DOMAIN tracking :
        /\ tracking[k].status = STATUS_FAILED
        /\ tracking[k].retry_count = 2
        /\ tracking[k].error_log = <<Sentinel, ExternalError>>

-----------------------------------------------------------------------------
(* C10: every record whose status is completed has output_path set and a   *)
(* duration that is set and not negative.                                  *)

-----------------------------------------------------------------------------
(* C11: with no two runs alive at once, a record is created as pending and *)
(* its status changes only pending -> processing, processing -> completed, *)
(* processing -> failed and failed -> pending; a record whose status is    *)
(* failed is changed only by a retry run; so a completed record never      *)
(* becomes failed or pending.                                              *)

AllowedTransitions ==
    {<<STATUS_PENDING, STATUS_PROCESSING>>,
     <<STATUS_PROCESSING, STATUS_COMPLETED>>,
     <<STATUS_PROCESSING, STATUS_FAILED>>,
     <<STATUS_FAILED, STATUS_PENDING>>}

C11_StatusTransitions ==
    [][/\ \A k \in DOMAIN tracking :
             /\ k \in DOMAIN tracking'
             /\ tracking'[k].status # tracking[k].status =>
                    <<tracking[k].status, tracking'[k].status>> \in AllowedTransitions
             /\ (tracking[k].status = STATUS_FAILED /\ tracking'[k] # tracking[k]) =>
                    \E p \in DOMAIN proc : Alive(p) /\ proc[p].retry_failed
       /\ \A k \in DOMAIN tracking' \ DOMAIN tracking :
             tracking'[k].status = STATUS_PENDING]_vars

-----------------------------------------------------------------------------
(* C12 as stated: every invocation performs reset_stuck_processing exactly *)
(* once, before it reads the collection to resolve its work list, so that  *)
(* no record is processing while it resolves.                              *)

\* the positions of run_pipeline at which it resolves its work list
Resolving(p) == proc[p].pc \in {"resolve", "completed_ids", "failed_ids", "filter"}

\* run_pipeline returned an error dict
SetupError(p) == proc[p].pc = "done" /\ "error" \in DOMAIN proc[p].summary[1]

C12_EveryInvocationResets ==
    \A p \in DOMAIN proc :
        /\ proc[p].pc \notin {"idle", "reset"} => proc[p].resets = 1
        /\ Resolving(p) => MatchStatus(tracking, STATUS_PROCESSING) = {}

(* C12 amended: every invocation that passes setup performs                *)
(* reset_stuck_processing exactly once, before it reads the collection to  *)
(* resolve its work list, so that no record is processing while it         *)
(* resolves; an invocation that stops on a setup error performs it not at  *)
(* all.                                                                    *)

C12_ResetOnceBeforeResolution ==
    \A p \in DOMAIN proc :
        /\ proc[p].pc = "reset" => proc[p].resets = 0
        /\ SetupError(p) => proc[p].resets = 0
        /\ (proc[p].pc \notin {"idle", "reset"} /\ ~SetupError(p)) => proc[p].resets = 1
        /\ Resolving(p) => MatchStatus(tracking, STATUS_PROCESSING) = {}

\* a run resolves its work list after it recovered a record that a killed
\* retry run had left in processing
C12_ResolvesAfterRecovery ==
    \E p \in DOMAIN proc :
        /\ proc[p].pc = "completed_ids"
        /\ proc[p].resets = 1
        /\ \E k \in DOMAIN tracking :
              /\ tracking[k].status = STATUS_FAILED
              /\ tracking[k].error_log = <<ExternalError, Sentinel>>

-----------------------------------------------------------------------------
(* C13: when a run calls create_pending_record for an id while another run *)
(* is about to call it or has just called it for the same id, the          *)
(* collection afterwards holds exactly one record for the id (no key is    *)
(* duplicated, so the unique index rejects nothing); its source_image_url, *)
(* style and mode are those of this, the last, call; and created_at,       *)
(* retry_count and error_log are what they were, or now, 0 and empty when  *)
(* the call inserted the record.                                           *)

\* run q is at its create_pending_record call for the id, or just past it
Upserting(q, id) ==
    /\ proc[q].pc \in {"pending", "processing"}
    /\ Player(q).api_player_id = id

C13_RacingUpserts ==
    [][\A p, q \in DOMAIN proc :
        (p # q /\ CreatePending(p) /\ Upserting(q, Player(p).api_player_id)) =>
            LET id == Player(p).api_player_id
                before == DocsOf(tracking, id)
            IN  /\ Cardinality(MatchId(tracking', id)) = 1
                /\ \A k \in MatchId(tracking', id) :
                      /\ tracking'[k].status = STATUS_PENDING
                      /\ tracking'[k].source_image_url = Player(p).image
                      /\ tracking'[k].style = proc[p].style
                      /\ tracking'[k].mode = proc[p].mode
                      /\ IF before = {}
                         THEN /\ tracking'[k].created_at = now
                              /\ tracking'[k].retry_count = 0
                              /\ tracking'[k].error_log = <<>>
                         ELSE \A b \in before :
                              /\ tracking'[k].created_at = b.created_at
                              /\ tracking'[k].retry_count = b.retry_count
                              /\ tracking'[k].error_log = b.error_log]_vars

\* two default runs on an empty collection have both upserted player 1, the
\* second later than the first and with another style: one record, inserted
\* by the first and rewritten by the second
C13_BothUpserted ==
    \E p, q \in DOMAIN proc :
        /\ p # q
        /\ proc[p].pc = "processing" /\ proc[q].pc = "processing"
        /\ proc[p].style = "Anime" /\ proc[q].style = "Photo"
        /\ Len(tracking) = 1
        /\ tracking[1].status = STATUS_PENDING
        /\ tracking[1].style = "Anime"
        /\ tracking[1].created_at < tracking[1].updated_at
        /\ tracking[1].error_log = <<>>
        /\ tracking[1].output_path = None

-----------------------------------------------------------------------------
(* C14: over all runs sharing the tracking collection, at most one run is  *)
(* between its mark_processing of an item and its terminal write for that  *)
(* item.                                                                   *)

\* run p has marked the item processing and not yet written completed or failed
Attempting(p, id) ==
    /\ proc[p].pc \in {"download", "generate", "verify", "upload", "complete"}
    /\ Player(p).api_player_id = id

C14_AtMostOneAttempt ==
    \A id \in PlayerIds :
        Cardinality({p \in DOMAIN proc : Attempting(p, id)}) <= 1

-----------------------------------------------------------------------------
(* C16: a run that stops on a setup error (empty or missing prompt, login  *)
(* failure, session invalid after login) leaves the tracking collection    *)
(* exactly as it was: from its start to its exit no record is created and  *)
(* no field of a record changes.                                           *)

C16_SetupErrorLeavesStore ==
    [][\A p \in DOMAIN proc :
        \/ proc'[p].pc = "done" /\ "error" \in DOMAIN proc'[p].summary[1]
        \/ SetupError(p)
        => tracking' = tracking]_vars

\* a run has stopped on a setup error and a record that a killed run left in
\* processing is still processing
C16_StuckRecordUntouched ==
    \E p \in DOMAIN proc :
        /\ SetupError(p)
        /\ \E k \in DOMAIN tracking :
              /\ tracking[k].status = STATUS_PROCESSING
              /\ tracking[k].error_log = <<>>

-----------------------------------------------------------------------------
(* C15: the entry point exits with code 0 when the run completed normally, *)
(* whatever the number of failed items, and with a non-zero code when it   *)
(* stopped on a setup-level error: an empty or missing prompt, a failed    *)
(* login, an invalid session, a filter that is not JSON.                   *)

\* the process has run and exited
HasExited(p) == proc[p].pc = "idle" /\ proc[p] # NoRun

C15_ExitCode ==
    \A p \in DOMAIN proc :
        HasExited(p) => (proc[p].exit_code = EXIT_OK <=> ~proc[p].fatal)

-----------------------------------------------------------------------------
(* C17: reset_stuck_processing returns the number of records it turned     *)
(* from processing into failed; when no record is processing it changes    *)
(* nothing in the collection and returns 0.                                *)

C17_ResetReturnsCount ==
    [][CallResetStuck =>
        /\ returned' = Some(StuckCount(tracking))
        /\ StuckCount(tracking) = 0 => (tracking' = tracking /\ returned' = Some(0))]_vars

-----------------------------------------------------------------------------
(* C18: mark_processing changes only status and updated_at of the record   *)
(* of its id, and mark_completed only status, output_path,                 *)
(* generation_duration_seconds, spaces_url and updated_at; neither changes *)
(* another record, and neither creates a record when there is none for the *)
(* id.                                                                     *)

\* new differs from old in no field outside fields
OnlyChanged(old, new, fields) ==
    /\ DOMAIN new = DOMAIN old
    /\ \A f \in DOMAIN old \ fields : new[f] = old[f]

\* the step changes no record but the one of id, and that one only in fields
TouchesOnly(id, fields) ==
    /\ DOMAIN tracking' = DOMAIN tracking
    /\ \A k \in DOMAIN tracking :
          IF tracking[k].api_player_id = id
          THEN OnlyChanged(tracking[k], tracking'[k], fields)
          ELSE tracking'[k] = tracking[k]

C18_MarkFrames ==
    [][/\ \A id \in Keys : CallMarkProcessing(id) =>
             /\ TouchesOnly(id, {"status", "updated_at"})
             /\ \A k \in MatchId(tracking', id) : tracking'[k].status = STATUS_PROCESSING
       /\ \A id \in Keys, d \in Durations :
             \A url \in {None, Some(CdnUrl(id))} : CallMarkCompleted(id, d, url) =>
                 /\ TouchesOnly(id, {"status", "output_path", "generation_duration_seconds",
                                     "spaces_url", "updated_at"})
                 /\ \A k \in MatchId(tracking', id) :
                       tracking'[k].status = STATUS_COMPLETED]_vars

\* a record that had failed once was marked completed, later than it was
\* created, beside a record that is pending
C18_CompletedKeepsHistory ==
    \E j, k \in DOMAIN tracking :
        /\ tracking[j].status = STATUS_COMPLETED
        /\ tracking[j].retry_count = 1
        /\ tracking[j].error_log = <<OutputMissing>>
        /\ tracking[j].created_at < tracking[j].updated_at
        /\ tracking[k].status = STATUS_PENDING

-----------------------------------------------------------------------------
(* C19: when a retry run's create_pending_record moves a failed record     *)
(* back to pending, the record's output_path, spaces_url and               *)
(* generation_duration_seconds are unset afterwards, and its error_log and *)
(* retry_count are what they were.                                         *)

C19_RetryResetsResult ==
    [][\A p \in DOMAIN proc :
        (CreatePending(p) /\ proc[p].retry_failed) =>
            \A k \in MatchId(tracking, Player(p).api_player_id) :
                tracking[k].status = STATUS_FAILED =>
                    /\ tracking'[k].status = STATUS_PENDING
                    /\ tracking'[k].output_path = None
                    /\ tracking'[k].spaces_url = None
                    /\ tracking'[k].generation_duration_seconds = None
                    /\ tracking'[k].error_log = tracking[k].error_log
                    /\ tracking'[k].retry_count = tracking[k].retry_count]_vars

-----------------------------------------------------------------------------
(* C20: in every reachable state a record whose status is pending,         *)
(* processing or failed has output_path and spaces_url unset.              *)

C20_ResultOnlyOnCompleted ==
    \A k \in DOMAIN tracking :
        tracking[k].status # STATUS_COMPLETED =>
            /\ tracking[k].output_path = None
            /\ tracking[k].spaces_url = None

-----------------------------------------------------------------------------
(* C21: when download, generation, the output check and the upload of an   *)
(* item have all succeeded and mark_completed has been written, the step   *)
(* that ends the attempt (the removal of the downloaded source image,      *)
(* whether or not it succeeds) leaves the item's record completed and the  *)
(* tracking collection as it was, adds one to succeeded and leaves failed  *)
(* alone.                                                                  *)

C21_CleanupCannotFail ==
    [][\A p \in DOMAIN proc :
        (/\ proc[p].pc = "cleanup"
         /\ proc'[p].pc \notin {"cleanup", "idle"}) =>
            /\ tracking' = tracking
            /\ \A d \in DocsOf(tracking', Player(p).api_player_id) :
                   d.status = STATUS_COMPLETED
            /\ proc'[p].succeeded = proc[p].succeeded + 1
            /\ proc'[p].failed = proc[p].failed]_vars

-----------------------------------------------------------------------------
(* C22: when generation has returned and the output file is absent, the    *)
(* next step of the run marks the item's record failed with retry_count    *)
(* one higher and exactly one appended error_log entry, counts the item in *)
(* failed and not in succeeded, and moves to the next item of the work     *)
(* list or, after the last one, to the summary; the upload and             *)
(* mark_completed are reached only with the output file present.           *)

C22_MissingOutputFails ==
    [][\A p \in DOMAIN proc :
        /\ proc[p].pc \in {"upload", "complete"} => proc[p].output_exists
        /\ (/\ proc[p].pc = "verify"
            /\ ~proc[p].output_exists
            /\ proc'[p].pc \notin {"verify", "idle"}) =>
              /\ DOMAIN tracking' = DOMAIN tracking
              /\ \A k \in DOMAIN tracking :
                    IF tracking[k].api_player_id = Player(p).api_player_id
                    THEN /\ tracking'[k].status = STATUS_FAILED
                         /\ tracking'[k].retry_count = tracking[k].retry_count + 1
                         /\ Len(tracking'[k].error_log) = Len(tracking[k].error_log) + 1
                         /\ IsPrefix(tracking[k].error_log, tracking'[k].error_log)
                    ELSE tracking'[k] = tracking[k]
              /\ proc'[p].failed = proc[p].failed + 1
              /\ proc'[p].succeeded = proc[p].succeeded
              /\ IF proc[p].i < Len(proc[p].work_list)
                 THEN proc'[p].pc = "pending" /\ proc'[p].i = proc[p].i + 1
                 ELSE Returned(p)']_vars

C22_NextItemAfterMissingOutput ==
    \E p \in DOMAIN proc :
        /\ proc[p].pc = "download"
        /\ proc[p].i = 2
        /\ proc[p].failed = 1
        /\ \A d \in DocsOf(tracking, proc[p].work_list[1].api_player_id) :
              /\ d.status = STATUS_FAILED
              /\ d.error_log = <<OutputMissing>>

-----------------------------------------------------------------------------
(* C23: a run killed after create_pending_record has been written for an   *)
(* item and before mark_completed or mark_failed is written leaves the     *)
(* item's record pending or processing, and the reset_stuck_processing of  *)
(* the next run turns every record it finds pending or processing into     *)
(* failed, with retry_count one higher and the crashed-run sentinel        *)
(* appended to error_log.                                                  *)

InFlight == {STATUS_PENDING, STATUS_PROCESSING}

Demotes(old, new) ==
    /\ new.status = STATUS_FAILED
    /\ new.retry_count = old.retry_count + 1
    /\ new.error_log = Append(old.error_log, Sentinel)

C23_KillAfterUpsertIsCaught ==
    [][\A p \in DOMAIN proc :
        /\ (/\ proc[p].pc \in {"processing", "download", "generate", "verify",
                               "upload", "complete"}
            /\ Kill(p)) =>
              \A d \in DocsOf(tracking', Player(p).api_player_id) :
                  d.status \in InFlight
        /\ ResetStuck(p) =>
              \A k \in DOMAIN tracking :
                  tracking[k].status \in InFlight =>
                      Demotes(tracking[k], tracking'[k])]_vars

(* C23, as the code has it: a run killed after mark_processing has been    *)
(* written for an item and before mark_completed or mark_failed is written *)
(* leaves the item's record processing; until the next run's               *)
(* reset_stuck_processing no step changes the tracking collection; and     *)
(* that reset turns every processing record into failed, with retry_count  *)
(* one higher and the sentinel appended to error_log.                      *)

C23_KillAfterProcessingIsCaught ==
    [][\A p \in DOMAIN proc :
        /\ (Kill(p) /\ Attempting(p, Player(p).api_player_id)) =>
              \A d \in DocsOf(tracking', Player(p).api_player_id) :
                  d.status = STATUS_PROCESSING
        /\ (~InLoop(p) /\ tracking' # tracking) => ResetStuck(p)
        /\ ResetStuck(p) =>
              \A k \in DOMAIN tracking :
                  tracking[k].status = STATUS_PROCESSING =>
                      Demotes(tracking[k], tracking'[k])]_vars

C23_KilledRetryDemoted ==
    \E p \in DOMAIN proc :
        /\ proc[p].pc = "resolve"
        /\ \E k \in DOMAIN tracking :
              /\ tracking[k].status = STATUS_FAILED
              /\ tracking[k].retry_count = 2
              /\ tracking[k].error_log = <<OutputMissing, Sentinel>>

-----------------------------------------------------------------------------
(* C24: the steps of one attempt follow the order create_pending_record,   *)
(* mark_processing, download, generation, output check, upload,            *)
(* mark_completed; a step either goes to its successor in that order or,   *)
(* from download on, ends the attempt as a failure. While the download,    *)
(* generation, output check or upload is due, the item's record is         *)
(* processing, and a record becomes completed only by the step after a     *)
(* successful upload, with the output file present.                        *)

StepOrder ==
    {<<"pending", "processing">>, <<"processing", "download">>,
     <<"download", "generate">>, <<"generate", "verify">>,
     <<"verify", "upload">>, <<"upload", "complete">>,
     <<"complete", "cleanup">>}

EndsAttempt(old, new) ==
    /\ new.pc \in {"pending", "done"}
    /\ new.pc = "pending" => new.i = old.i + 1
    /\ new.succeeded + new.failed = old.succeeded + old.failed + 1

C24_StepOrder ==
    [][\A p \in DOMAIN proc :
        /\ Attempting(p, Player(p).api_player_id) =>
              \A d \in DocsOf(tracking, Player(p).api_player_id) :
                  d.status = STATUS_PROCESSING
        /\ Attempting(p, Player(p).api_player_id) =>
              DocsOf(tracking, Player(p).api_player_id) # {}
        /\ (InLoop(p) /\ proc'[p] # proc[p] /\ proc'[p].pc # "idle") =>
              \/ /\ <<proc[p].pc, proc'[p].pc>> \in StepOrder
                 /\ proc'[p].i = proc[p].i
              \/ /\ proc[p].pc \in {"download", "generate", "verify", "upload"}
                 /\ EndsAttempt(proc[p], proc'[p])
                 /\ proc'[p].failed = proc[p].failed + 1
              \/ /\ proc[p].pc = "cleanup"
                 /\ EndsAttempt(proc[p], proc'[p])
        /\ \A k \in DOMAIN tracking' :
              (/\ tracking'[k].status = STATUS_COMPLETED
               /\ (k \in DOMAIN tracking => tracking[k].status # STATUS_COMPLETED)) =>
                  /\ proc[p].pc = "complete"
                  /\ proc[p].output_exists
                  /\ Player(p).api_player_id = tracking'[k].api_player_id]_vars

C24_CompletedInOrder ==
    \E p \in DOMAIN proc :
        /\ proc[p].pc = "cleanup"
        /\ proc[p].i = 2
        /\ proc[p].succeeded = 1
        /\ \A d \in DocsOf(tracking, Player(p).api_player_id) :
              d.status = STATUS_COMPLETED

-----------------------------------------------------------------------------
(* C25: with one run at a time, in every state of a run that has performed *)
(* reset_stuck_processing and has not stopped on a setup error, at most    *)
(* one record is processing; there is one only between the run's           *)
(* mark_processing and its next status write for the same item, and it is  *)
(* the record of the item the loop is at.                                  *)

PastRecovery(p) == proc[p].pc \notin {"idle", "reset"} /\ ~SetupError(p)

C25_OneProcessingRecord ==
    \A p \in DOMAIN proc :
        PastRecovery(p) =>
            /\ Cardinality(MatchStatus(tracking, STATUS_PROCESSING)) <= 1
            /\ HavingStatus(tracking, STATUS_PROCESSING) =
                   IF Attempting(p, Player(p).api_player_id)
                   THEN {Player(p).api_player_id}
                   ELSE {}

C25_SecondItemProcessing ==
    \E p \in DOMAIN proc :
        /\ proc[p].pc = "generate"
        /\ proc[p].i = 2
        /\ HavingStatus(tracking, STATUS_PROCESSING) = {Player(p).api_player_id}
        /\ HavingStatus(tracking, STATUS_FAILED) = {proc[p].work_list[1].api_player_id}

-----------------------------------------------------------------------------
(* C26: when a run performs reset_stuck_processing while another run is    *)
(* between mark_processing and the next status write for an item, the      *)
(* record of that item is unchanged by the reset.                          *)

C26_ResetSparesLiveAttempts ==
    [][\A p, q \in DOMAIN proc :
        (/\ p # q
         /\ ResetStuck(q)
         /\ Attempting(p, Player(p).api_player_id)) =>
            \A k \in MatchId(tracking, Player(p).api_player_id) :
                tracking'[k] = tracking[k]]_vars

-----------------------------------------------------------------------------
(* Runs with the default --max-retries: one process at a time, started     *)
(* either as a default run for player 1 or as a retry-failed run, killed   *)
(* at any step.                                                            *)

RetryArgs ==
    {Args(FALSE, DefaultMaxRetries, {1}, 0),
     Args(TRUE, DefaultMaxRetries, {}, 0)}

InitRetry ==
    /\ tracking = <<>>
    /\ source = TwoPlayers
    /\ now = 0
    /\ proc = [p \in {1} |-> NoRun]
    /\ ops = 0
    /\ returned = None

NextRetry ==
    \/ \E p \in Procs, args \in RetryArgs : StartRun(p, args)
    \/ \E p \in Procs : ResetStuck(p)
    \/ \E p \in Procs : FetchFailed(p)
    \/ \E p \in Procs : FetchPlayers(p)
    \/ \E p \in Procs : ReadCompleted(p)
    \/ \E p \in Procs : ReadFailed(p)
    \/ \E p \in Procs : FilterNoImage(p)
    \/ \E p \in Procs : CreatePending(p)
    \/ \E p \in Procs : MarkProcessing(p)
    \/ \E p \in Procs : Download(p)
    \/ \E p \in Procs : DownloadRaises(p)
    \/ \E p \in Procs, written \in BOOLEAN : Generate(p, written)
    \/ \E p \in Procs : GenerateRaises(p)
    \/ \E p \in Procs : Verify(p)
    \/ \E p \in Procs : VerifyRaises(p)
    \/ \E p \in Procs : Upload(p)
    \/ \E p \in Procs : UploadRaises(p)
    \/ \E p \in Procs, duration \in Durations : Complete(p, duration)
    \/ \E p \in Procs : Cleanup(p)
    \/ \E p \in Procs : CleanupRaises(p)
    \/ \E p \in Procs : Exit(p)
    \/ \E p \in Procs : Kill(p)

SpecRetry == InitRetry /\ [][NextRetry]_vars

\* the ids of the work list a retry-failed run with this threshold resolves
RetryIds(coll, max_retries) ==
    {WithImage(RetryWorkList(coll, max_retries))[j].api_player_id :
        j \in DOMAIN WithImage(RetryWorkList(coll, max_retries))}

(* C27: every record that reset_stuck_processing demotes from processing   *)
(* is, right after the reset, in the work list that a retry-failed run     *)
(* with the default max_retries of 3 resolves.                             *)

C27_DemotedAlwaysRetried ==
    [][\A p \in DOMAIN proc :
        ResetStuck(p) =>
            \A k \in DOMAIN tracking :
                tracking[k].status = STATUS_PROCESSING =>
                    tracking[k].api_player_id \in RetryIds(tracking', DefaultMaxRetries)]_vars

(* C27, as the code has it: every record that reset_stuck_processing       *)
(* demotes from processing is failed after the reset, and is in the work   *)
(* list that a retry-failed run resolves exactly when its retry_count,     *)
(* with the one the reset added, is below that run's max_retries.          *)

C27_DemotedRetriedWithinBudget ==
    [][\A p \in DOMAIN proc :
        ResetStuck(p) =>
            \A k \in DOMAIN tracking :
                tracking[k].status = STATUS_PROCESSING =>
                    /\ tracking'[k].status = STATUS_FAILED
                    /\ \A m \in 1..DefaultMaxRetries :
                          tracking[k].api_player_id \in RetryIds(tracking', m)
                              <=> tracking[k].retry_count + 1 < m]_vars

C27_DemotedAtLastRetry ==
    \E p \in DOMAIN proc :
        /\ proc[p].pc = "filter"
        /\ proc[p].retry_failed
        /\ Len(proc[p].work_list) = 1
        /\ \E k \in DOMAIN tracking :
              /\ tracking[k].status = STATUS_FAILED
              /\ tracking[k].retry_count = DefaultMaxRetries - 1
              /\ tracking[k].error_log[Len(tracking[k].error_log)] = Sentinel

-----------------------------------------------------------------------------
(* C28: in a default run that has read the completed ids and the failed    *)
(* ids, while another run writes to the tracking collection, no fetched    *)
(* player is in both sets (so none is counted in skipped_completed and in  *)
(* skipped_failed), no player counted as skipped is in the work list, and  *)
(* the two counts and the work list add up to the players fetched.         *)

FetchedIds(p) == {proc[p].players[j].api_player_id : j \in DOMAIN proc[p].players}

WorkIds(p) == {proc[p].work_list[j].api_player_id : j \in DOMAIN proc[p].work_list}

C28_SkipCountsDisjoint ==
    \A p \in DOMAIN proc :
        (proc[p].pc = "filter" /\ ~proc[p].retry_failed) =>
            /\ FetchedIds(p) \cap proc[p].completed_ids \cap proc[p].failed_ids = {}
            /\ WorkIds(p) \cap (proc[p].completed_ids \cup proc[p].failed_ids) = {}
            /\ proc[p].skipped_completed + proc[p].skipped_failed
                   + Len(proc[p].work_list) = proc[p].total_fetched

-----------------------------------------------------------------------------
(* C29: with one run at a time, a record that is completed when a run      *)
(* starts is not in that run's work list and is not changed by it, for     *)
(* all-players, explicit-ids, limited and retry-failed runs alike: the     *)
(* work list a run resolves holds no player whose record is completed, the *)
(* records of the items the loop has not reached are not completed, and a  *)
(* step changes a completed record only if the run that takes it completed *)
(* that record itself, in the attempt it is ending.                        *)

CompletedIds == HavingStatus(tracking, STATUS_COMPLETED)

C29_CompletedLeftAlone ==
    [][\A p \in DOMAIN proc :
        /\ proc[p].pc = "filter" => WorkIds(p) \cap CompletedIds = {}
        /\ InLoop(p) =>
              \A j \in DOMAIN proc[p].work_list :
                  (\/ j > proc[p].i
                   \/ j = proc[p].i /\ proc[p].pc \in {"pending", "processing"}) =>
                      proc[p].work_list[j].api_player_id \notin CompletedIds
        /\ \A k \in DOMAIN tracking :
              (tracking[k].status = STATUS_COMPLETED /\ tracking'[k] # tracking[k]) =>
                  /\ proc[p].pc = "cleanup"
                  /\ Player(p).api_player_id = tracking[k].api_player_id]_vars

C29_ExplicitIdCompletedSkipped ==
    \E p \in DOMAIN proc :
        /\ Returned(p)
        /\ proc[p].player_ids = {1}
        /\ proc[p].summary[1].skipped_completed = 1
        /\ proc[p].summary[1].processed = 0
        /\ 1 \in CompletedIds

-----------------------------------------------------------------------------
(* C30: a step that a run takes while its loop is at an item changes no    *)
(* record of another api_player_id and adds no record of another           *)
(* api_player_id; a step that changes more than one record is a            *)
(* reset_stuck_processing step.                                            *)

Changed == {k \in DOMAIN tracking : k \notin DOMAIN tracking' \/ tracking'[k] # tracking[k]}

C30_OtherRecordsUntouched ==
    [][\A p \in DOMAIN proc :
        /\ (InLoop(p) /\ proc'[p] # proc[p]) =>
              /\ \A k \in DOMAIN tracking :
                    tracking[k].api_player_id # Player(p).api_player_id =>
                        /\ k \in DOMAIN tracking'
                        /\ tracking'[k] = tracking[k]
              /\ \A k \in DOMAIN tracking' \ DOMAIN tracking :
                    tracking'[k].api_player_id = Player(p).api_player_id
        /\ (proc'[p] # proc[p] /\ Cardinality(Changed) > 1) => ResetStuck(p)]_vars

C30_SecondAttemptBesideFirst ==
    \E p \in DOMAIN proc :
        /\ proc[p].pc = "cleanup"
        /\ proc[p].i = 2
        /\ proc[p].failed = 1
        /\ \E k \in DOMAIN tracking :
              /\ tracking[k].api_player_id = proc[p].work_list[1].api_player_id
              /\ tracking[k].status = STATUS_FAILED
              /\ tracking[k].error_log = <<ExternalError>>

-----------------------------------------------------------------------------
(* C31: in every state, before and after every call of a store operation,  *)
(* every record's error_log has as many entries as its retry_count says;   *)
(* a call that changes a record's retry_count or error_log adds one to     *)
(* retry_count and appends exactly one entry to error_log.                 *)

LogMatchesCount(coll) ==
    \A k \in DOMAIN coll : Len(coll[k].error_log) = coll[k].retry_count

C31_LogLengthIsRetryCount ==
    [][/\ LogMatchesCount(tracking)
       /\ LogMatchesCount(tracking')
       /\ \A k \in DOMAIN tracking :
             (\/ tracking'[k].retry_count # tracking[k].retry_count
              \/ tracking'[k].error_log # tracking[k].error_log) =>
                 /\ tracking'[k].retry_count = tracking[k].retry_count + 1
                 /\ Len(tracking'[k].error_log) = Len(tracking[k].error_log) + 1
                 /\ IsPrefix(tracking[k].error_log, tracking'[k].error_log)]_vars

C31_FailedThenInterrupted ==
    \E k \in DOMAIN tracking :
        /\ tracking[k].status = STATUS_FAILED
        /\ tracking[k].retry_count = 2
        /\ tracking[k].error_log = <<OutputMissing, Sentinel>>
        /\ ops = MaxOps

-----------------------------------------------------------------------------
(* C32: with one run at a time and every retry-failed run started with the *)
(* same max_retries (the default, 3), whatever the order of default runs,  *)
(* retry-failed runs, failed steps and kills: a retry-failed run writes    *)
(* create_pending_record, the first step of an attempt, only for a record  *)
(* whose retry_count is below max_retries, and no record's retry_count is  *)
(* ever above max_retries.                                                 *)

WithinBudget(coll, max_retries) ==
    \A k \in DOMAIN coll : coll[k].retry_count <= max_retries

C32_RetriesBounded ==
    [][/\ WithinBudget(tracking, DefaultMaxRetries)
       /\ WithinBudget(tracking', DefaultMaxRetries)
       /\ \A p \in DOMAIN proc :
             (proc[p].pc = "pending" /\ proc[p].retry_failed /\ CreatePending(p)) =>
                 /\ proc[p].max_retries = DefaultMaxRetries
                 /\ \A d \in DocsOf(tracking, Player(p).api_player_id) :
                        d.retry_count < proc[p].max_retries]_vars

C32_ExhaustedNotRetried ==
    \E p \in DOMAIN proc :
        /\ Returned(p)
        /\ proc[p].retry_failed
        /\ proc[p].summary[1].total_fetched = 0
        /\ \E k \in DOMAIN tracking :
              /\ tracking[k].status = STATUS_FAILED
              /\ tracking[k].retry_count = DefaultMaxRetries

====
